---- MODULE Spec2Model ----
(***************************************************************************)
(* The wire-format decoders of the query SDK: QueryRequest and             *)
(* QueryResponse with their per-chain and chain-specific parsers, all      *)
(* reading one shared std::io::Cursor<&[u8]>.                              *)
(*                                                                         *)
(* A decode is a run of a small stack machine.  Each parser of the source  *)
(* is a table of read statements in source order (..._code below); a frame *)
(* of the stack is one active deserialize_from_reader call.  One action of *)
(* the model is one statement of the source.  Two decodes run side by      *)
(* side, `run` on a buffer and `peer` on a related buffer (a prefix, an    *)
(* extension, or the same bytes with other discarded length fields), so    *)
(* that statements relating two decodes are state predicates.              *)
(*                                                                         *)
(* Integers wider than 16 bits are kept as big-endian sequences of 16-bit  *)
(* limbs (a u32 is <<hi, lo>>), exact over the full u32 / u64 range.       *)
(***************************************************************************)
EXTENDS Integers, Sequences, FiniteSets, TLC

VARIABLES run, peer, input

vars == <<run, peer, input>>

(***************************************************************************)
(* Program constants.                                                      *)
(***************************************************************************)
REQUEST_VERSION == 1
RESPONSE_VERSION == 1
AddressLen == 20
HashLen == 32
SignatureLen == 65
VaaHashLen == 32

(***************************************************************************)
(* Bounds of the model.                                                    *)
(***************************************************************************)
MaxQueries == 2
MaxTrail == 1

(***************************************************************************)
(* The parsers as tables of statements.                                    *)
(*   op    the statement                                                   *)
(*   name  the local / struct field it sets                                *)
(*   n     a width in bytes, an expected value or a minimum                *)
(*   err   the message of the io::Error it may return                      *)
(*   sub   the parser it calls                                             *)
(***************************************************************************)
Ins(op, name, n, err, sub) ==
    [op |-> op, name |-> name, n |-> n, err |-> err, sub |-> sub]

\* let mut v = vec![0u8; rdr.read_u32()?]; rdr.read_exact(&mut v)?; String::from_utf8(v)
StringField(name, err) ==
    << Ins("len", name, 4, "", ""), Ins("string", name, 0, err, "") >>

\* let mut v = vec![0u8; rdr.read_u32()?]; rdr.read_exact(&mut v)?
BytesField(name) ==
    << Ins("len", name, 4, "", ""), Ins("bytes", name, 0, "", "") >>

\* let n = rdr.read_u8()?; Vec::with_capacity(n); for _ in 0..n { push(sub) }
ListField(name, sub) ==
    << Ins("count", name, 0, "", ""), Ins("iter", name, 0, "", sub) >>

\* QueryRequest's parser with QueryResponse's comparison of the cursor
\* position with the buffer length added before the Ok(..).
QueryRequest_code_EndCheck ==
    << Ins("version", "version", REQUEST_VERSION, "VersionMismatch", ""),
       Ins("uint", "nonce", 4, "", ""),
       Ins("count", "requests", 1, "ZeroQueries", ""),
       Ins("iter", "requests", 0, "", "PerChainQueryRequest"),
       Ins("end", "", 0, "InvalidPayloadLength", "") >>

\* QueryRequest's parser without the check of num_per_chain_queries.
QueryRequest_code_NoZeroCheck ==
    << Ins("version", "version", REQUEST_VERSION, "VersionMismatch", ""),
       Ins("uint", "nonce", 4, "", ""),
       Ins("count", "requests", 0, "ZeroQueries", ""),
       Ins("iter", "requests", 0, "", "PerChainQueryRequest") >>

QueryRequest_code ==
    << Ins("version", "version", REQUEST_VERSION, "VersionMismatch", ""),
       Ins("uint", "nonce", 4, "", ""),
       Ins("count", "requests", 1, "ZeroQueries", ""),
       Ins("iter", "requests", 0, "", "PerChainQueryRequest") >>

PerChainQueryRequest_code ==
    << Ins("uint", "chain_id", 2, "", ""),
       Ins("uint", "query_type", 1, "", ""),
       Ins("skip", "", 4, "", ""),
       Ins("dispatch", "query", 0, "UnsupportedQueryType", "Request") >>

EthCallData_code ==
    << Ins("fixed", "to", AddressLen, "", "") >> \o BytesField("data")

EthCallQueryRequest_code ==
    StringField("block_tag", "InvalidBlockTag")
    \o ListField("call_data", "EthCallData")

EthCallByTimestampQueryRequest_code ==
    << Ins("uint", "target_timestamp", 8, "", "") >>
    \o StringField("target_block_hint", "InvalidBlockTag")
    \o StringField("following_block_hint", "InvalidBlockTag")
    \o ListField("call_data", "EthCallData")

EthCallWithFinalityQueryRequest_code ==
    StringField("block_tag", "InvalidBlockTag")
    \o StringField("finality", "InvalidFinality")
    \o ListField("call_data", "EthCallData")

SolanaAccount_code ==
    << Ins("fixed", "account", HashLen, "", "") >>

SolanaAccountQueryRequest_code ==
    StringField("commitment", "InvalidBlockTag")
    \o << Ins("uint", "min_context_slot", 8, "", ""),
          Ins("uint", "data_slice_offset", 8, "", ""),
          Ins("uint", "data_slice_length", 8, "", "") >>
    \o ListField("accounts", "SolanaAccount")

\* QueryResponse's parser without the final comparison of the position.
QueryResponse_code_NoEndCheck ==
    << Ins("version", "version", RESPONSE_VERSION, "InvalidResponseVersion", ""),
       Ins("uint", "request_chain_id", 2, "", ""),
       Ins("request_id", "request_id", 0, "", ""),
       Ins("skip", "", 4, "", ""),
       Ins("call", "request", 0, "", "QueryRequest") >>
    \o ListField("responses", "PerChainQueryResponse")

QueryResponse_code ==
    << Ins("version", "version", RESPONSE_VERSION, "InvalidResponseVersion", ""),
       Ins("uint", "request_chain_id", 2, "", ""),
       Ins("request_id", "request_id", 0, "", ""),
       Ins("skip", "", 4, "", ""),
       Ins("call", "request", 0, "", "QueryRequest") >>
    \o ListField("responses", "PerChainQueryResponse")
    \o << Ins("end", "", 0, "InvalidPayloadLength", "") >>

PerChainQueryResponse_code ==
    << Ins("uint", "chain_id", 2, "", ""),
       Ins("uint", "query_type", 1, "", ""),
       Ins("skip", "", 4, "", ""),
       Ins("dispatch", "response", 0, "UnsupportedResponseType", "Response") >>

EthCallResult_code ==
    BytesField("result")

EthCallQueryResponse_code ==
    << Ins("uint", "block_number", 8, "", ""),
       Ins("fixed", "block_hash", HashLen, "", ""),
       Ins("uint", "block_time", 8, "", "") >>
    \o ListField("results", "EthCallResult")

EthCallByTimestampQueryResponse_code ==
    << Ins("uint", "target_block_number", 8, "", ""),
       Ins("fixed", "target_block_hash", HashLen, "", ""),
       Ins("uint", "target_block_time", 8, "", ""),
       Ins("uint", "following_block_number", 8, "", ""),
       Ins("fixed", "following_block_hash", HashLen, "", ""),
       Ins("uint", "following_block_time", 8, "", "") >>
    \o ListField("results", "EthCallResult")

EthCallWithFinalityQueryResponse_code ==
    << Ins("tail", "", 0, "", "EthCallQueryResponse") >>

SolanaAccountResult_code ==
    << Ins("uint", "lamports", 8, "", ""),
       Ins("uint", "rent_epoch", 8, "", ""),
       Ins("bool", "executable", 1, "", ""),
       Ins("fixed", "owner", HashLen, "", "") >>
    \o BytesField("data")

SolanaAccountQueryResponse_code ==
    << Ins("uint", "slot_number", 8, "", ""),
       Ins("uint", "block_time", 8, "", ""),
       Ins("fixed", "block_hash", HashLen, "", "") >>
    \o ListField("results", "SolanaAccountResult")

Code(p) ==
    CASE p = "QueryRequest" -> QueryRequest_code
      [] p = "PerChainQueryRequest" -> PerChainQueryRequest_code
      [] p = "EthCallData" -> EthCallData_code
      [] p = "EthCallQueryRequest" -> EthCallQueryRequest_code
      [] p = "EthCallByTimestampQueryRequest" -> EthCallByTimestampQueryRequest_code
      [] p = "EthCallWithFinalityQueryRequest" -> EthCallWithFinalityQueryRequest_code
      [] p = "SolanaAccount" -> SolanaAccount_code
      [] p = "SolanaAccountQueryRequest" -> SolanaAccountQueryRequest_code
      [] p = "QueryResponse" -> QueryResponse_code
      [] p = "PerChainQueryResponse" -> PerChainQueryResponse_code
      [] p = "EthCallResult" -> EthCallResult_code
      [] p = "EthCallQueryResponse" -> EthCallQueryResponse_code
      [] p = "EthCallByTimestampQueryResponse" -> EthCallByTimestampQueryResponse_code
      [] p = "EthCallWithFinalityQueryResponse" -> EthCallWithFinalityQueryResponse_code
      [] p = "SolanaAccountResult" -> SolanaAccountResult_code
      [] p = "SolanaAccountQueryResponse" -> SolanaAccountQueryResponse_code

\* The value a parser returns: Ok(Struct { fields }) keeps the named locals
\* (query_type is consumed and not stored); a loop body that pushes a bare
\* local returns that local.
Bare(p) ==
    CASE p = "SolanaAccount" -> "account"
      [] p = "EthCallResult" -> "result"
      [] OTHER -> ""

Dropped(p) ==
    IF p \in {"PerChainQueryRequest", "PerChainQueryResponse"}
    THEN {"query_type"}
    ELSE {}

\* The dispatch with a final `else` arm in place of `else if query_type == 4`.
Variant_DefaultArm(side, tag) ==
    LET req == side = "Request" IN
    CASE tag = 1 -> IF req THEN "EthCallQueryRequest" ELSE "EthCallQueryResponse"
      [] tag = 2 -> IF req THEN "EthCallByTimestampQueryRequest"
                           ELSE "EthCallByTimestampQueryResponse"
      [] tag = 3 -> IF req THEN "EthCallWithFinalityQueryRequest"
                           ELSE "EthCallWithFinalityQueryResponse"
      [] OTHER -> IF req THEN "SolanaAccountQueryRequest"
                         ELSE "SolanaAccountQueryResponse"

\* if query_type == 1 {...} else if query_type == 2 {...} ... else { Err }
Variant(side, tag) ==
    LET req == side = "Request" IN
    CASE tag = 1 -> IF req THEN "EthCallQueryRequest" ELSE "EthCallQueryResponse"
      [] tag = 2 -> IF req THEN "EthCallByTimestampQueryRequest"
                           ELSE "EthCallByTimestampQueryResponse"
      [] tag = 3 -> IF req THEN "EthCallWithFinalityQueryRequest"
                           ELSE "EthCallWithFinalityQueryResponse"
      [] tag = 4 -> IF req THEN "SolanaAccountQueryRequest"
                           ELSE "SolanaAccountQueryResponse"
      [] OTHER -> ""

(***************************************************************************)
(* Primitive readers.                                                      *)
(***************************************************************************)
\* LittleEndian::read_u16 on two bytes.
BE16_LittleEndian(bs, i) == bs[i + 1] * 256 + bs[i]

\* byteorder's BigEndian::read_u16 on two bytes.
BE16(bs, i) == bs[i] * 256 + bs[i + 1]

\* read_u8 / read_u16 give a number; read_u32 / read_u64 give the number as
\* big-endian 16-bit limbs.
BigEndian(bs) ==
    CASE Len(bs) = 1 -> bs[1]
      [] Len(bs) = 2 -> BE16(bs, 1)
      [] OTHER -> [k \in 1..(Len(bs) \div 2) |-> BE16(bs, 2 * k - 1)]

\* core::str::from_utf8: the well-formed byte sequences of UTF-8.
RECURSIVE Utf8From(_, _)
Utf8From(bs, i) ==
    IF i > Len(bs) THEN TRUE
    ELSE LET b == bs[i]
             Cont(k, lo, hi) == i + k <= Len(bs) /\ bs[i + k] \in lo..hi
             T(k) == Cont(k, 128, 191)
         IN  IF b <= 127 THEN Utf8From(bs, i + 1)
             ELSE IF b \in 194..223 THEN T(1) /\ Utf8From(bs, i + 2)
             ELSE IF b = 224 THEN Cont(1, 160, 191) /\ T(2) /\ Utf8From(bs, i + 3)
             ELSE IF b \in (225..236) \cup (238..239)
                  THEN T(1) /\ T(2) /\ Utf8From(bs, i + 3)
             ELSE IF b = 237 THEN Cont(1, 128, 159) /\ T(2) /\ Utf8From(bs, i + 3)
             ELSE IF b = 240
                  THEN Cont(1, 144, 191) /\ T(2) /\ T(3) /\ Utf8From(bs, i + 4)
             ELSE IF b \in 241..243
                  THEN T(1) /\ T(2) /\ T(3) /\ Utf8From(bs, i + 4)
             ELSE IF b = 244
                  THEN Cont(1, 128, 143) /\ T(2) /\ T(3) /\ Utf8From(bs, i + 4)
             ELSE FALSE

from_utf8(bs) == Utf8From(bs, 1)

(***************************************************************************)
(* The state of one decode.                                                *)
(*   buf, pos   the Cursor: the slice and its position                     *)
(*   stack      the active deserialize_from_reader calls, innermost last   *)
(*   result     "running", "ok", "panic" or an error message               *)
(*   value      the value returned on "ok"                                 *)
(*   alloc      the last vec![0u8; declared_len]: its size and the bytes   *)
(*              that remained at the cursor when it was made               *)
(*   readEnd    the highest offset read so far; reread: a read began       *)
(*              below it                                                   *)
(*   skipped    the offsets of the length fields read and discarded        *)
(***************************************************************************)
NoValue == [none |-> TRUE]
NoFields == [x \in {} |-> 0]

Frame(p, at) ==
    [prog |-> p, ip |-> 1, val |-> NoFields, left |-> 0, len |-> <<0, 0>>,
     start |-> at]

\* Cursor::new(data), then the root deserialize_from_reader.
Cursor_new(data, root) ==
    [buf |-> data, pos |-> 0, stack |-> << Frame(root, 0) >>,
     result |-> "running", value |-> NoValue,
     alloc |-> [size |-> <<0, 0>>, rem |-> 0, made |-> FALSE],
     readEnd |-> 0, reread |-> FALSE, skipped |-> {}]

Top(s) == s.stack[Len(s.stack)]
AtEnd(s) == Top(s).ip > Len(Code(Top(s).prog))
Cur(s) == Code(Top(s).prog)[Top(s).ip]
Running(s) == s.result = "running"
Remaining(s) == Len(s.buf) - s.pos

OpOf(s) ==
    IF ~Running(s) THEN "halt"
    ELSE IF AtEnd(s) THEN "return"
    ELSE Cur(s).op

SetTop(s, f) == [s EXCEPT !.stack[Len(s.stack)] = f]
Store(f, name, v) == [f EXCEPT !.val = (name :> v) @@ @, !.ip = @ + 1]
Err(s, msg) == [s EXCEPT !.result = msg]

\* The two std implementations of Cursor::read_exact differ on failure: the
\* position is left alone, or set to the end of the slice.
Eof(s, env) ==
    [s EXCEPT !.result = "UnexpectedEof",
              !.pos = IF env.eofSeek THEN Len(s.buf) ELSE @]

Advance(s, n) ==
    [s EXCEPT !.pos = @ + n,
              !.reread = @ \/ (n > 0 /\ s.pos < s.readEnd),
              !.readEnd = IF s.pos + n > @ THEN s.pos + n ELSE @]

\* Cursor::read_exact of n bytes.
read_exact(s, n, env) ==
    IF n <= Remaining(s)
    THEN [ok |-> TRUE, bytes |-> SubSeq(s.buf, s.pos + 1, s.pos + n),
          next |-> Advance(s, n)]
    ELSE [ok |-> FALSE, bytes |-> << >>, next |-> Eof(s, env)]

(***************************************************************************)
(* The statements.  Each takes the decode state and the build it runs on   *)
(* (env.eofSeek: read_exact leaves the cursor at the end on failure;       *)
(* env.ptr32: usize is 32 bits wide) and gives the next state.             *)
(***************************************************************************)
Env == [eofSeek : BOOLEAN, ptr32 : BOOLEAN]

\* The version read and stored without the comparison.
ExecVersion_Unchecked(s, env) ==
    LET r == read_exact(s, 1, env) IN
    IF ~r.ok THEN r.next
    ELSE SetTop(r.next, Store(Top(s), Cur(s).name, r.bytes[1]))

\* let version = rdr.read_u8()?; if version != VERSION { return Err(..) }
ExecVersion(s, env) ==
    LET r == read_exact(s, 1, env) IN
    IF ~r.ok THEN r.next
    ELSE IF r.bytes[1] # Cur(s).n THEN Err(r.next, Cur(s).err)
    ELSE SetTop(r.next, Store(Top(s), Cur(s).name, r.bytes[1]))

\* let x = rdr.read_u8()? / read_u16 / read_u32 / read_u64::<BigEndian>()?
ExecUInt(s, env) ==
    LET r == read_exact(s, Cur(s).n, env) IN
    IF ~r.ok THEN r.next
    ELSE SetTop(r.next, Store(Top(s), Cur(s).name, BigEndian(r.bytes)))

\* The length field read and held against the bytes that remain.
ExecSkip_Validated(s, env) ==
    LET r == read_exact(s, Cur(s).n, env) IN
    IF ~r.ok THEN r.next
    ELSE IF BigEndian(r.bytes)[1] > 0 \/ BigEndian(r.bytes)[2] > Remaining(r.next)
         THEN Err(r.next, "InvalidPayloadLength")
    ELSE SetTop([r.next EXCEPT !.skipped = @ \cup ((s.pos + 1)..(s.pos + Cur(s).n))],
                [Top(s) EXCEPT !.ip = @ + 1])

\* rdr.read_u32::<BigEndian>()?; // skip the length
ExecSkip(s, env) ==
    LET r == read_exact(s, Cur(s).n, env) IN
    IF ~r.ok THEN r.next
    ELSE SetTop([r.next EXCEPT !.skipped = @ \cup ((s.pos + 1)..(s.pos + Cur(s).n))],
                [Top(s) EXCEPT !.ip = @ + 1])

\* let n = rdr.read_u8()?; (if n == 0 { return Err(..) }) Vec::with_capacity(n)
ExecCount(s, env) ==
    LET r == read_exact(s, 1, env) IN
    IF ~r.ok THEN r.next
    ELSE IF r.bytes[1] < Cur(s).n THEN Err(r.next, Cur(s).err)
    ELSE SetTop(r.next,
                [Store(Top(s), Cur(s).name, << >>) EXCEPT !.left = r.bytes[1]])

\* Entering Sub::deserialize(data) instead: the callee reads a new cursor on
\* the whole slice.
Enter_FreshCursor(s, p) ==
    [s EXCEPT !.pos = 0, !.stack = Append(@, Frame(p, 0))]

\* Entering a deserialize_from_reader(rdr): the callee reads the same cursor.
Enter(s, p) == [s EXCEPT !.stack = Append(@, Frame(p, s.pos))]

\* for _ in 0..n { v.push(Sub::deserialize_from_reader(rdr)?) }
ExecIter(s, env) ==
    IF Top(s).left = 0
    THEN SetTop(s, [Top(s) EXCEPT !.ip = @ + 1])
    ELSE Enter(SetTop(s, [Top(s) EXCEPT !.left = @ - 1]), Cur(s).sub)

\* vec![0u8; len]: with a 32-bit usize a size above isize::MAX panics
\* (capacity overflow); otherwise the buffer is allocated, zeroed.
Allocate(s, size, env) ==
    LET a == [s EXCEPT !.alloc = [size |-> size, rem |-> Remaining(s), made |-> TRUE]]
    IN  IF env.ptr32 /\ size[1] > 32767 THEN Err(a, "panic") ELSE a

\* let len = rdr.read_u32::<BigEndian>()?; let mut buf = vec![0u8; len as usize];
ExecLen(s, env) ==
    LET r == read_exact(s, Cur(s).n, env) IN
    IF ~r.ok THEN r.next
    ELSE LET size == BigEndian(r.bytes)
             a == Allocate(r.next, size, env)
         IN  IF ~Running(a) THEN a
             ELSE SetTop(a, [Top(s) EXCEPT !.len = size, !.ip = @ + 1])

\* rdr.take(len).read_to_end(&mut buf)? in place of read_exact: the field takes
\* the bytes that remain when fewer than the declared length do.
ReadDeclared_Truncating(s, env) ==
    LET m == IF Top(s).len[1] > 0 \/ Top(s).len[2] > Remaining(s)
             THEN Remaining(s) ELSE Top(s).len[2]
    IN  read_exact(s, m, env)

\* rdr.read_exact(&mut buf)? into the buffer of the declared length.  A length
\* of 2^16 or more (a nonzero high limb) exceeds every buffer of the model.
ReadDeclared(s, env) ==
    IF Top(s).len[1] > 0
    THEN [ok |-> FALSE, bytes |-> << >>, next |-> Eof(s, env)]
    ELSE read_exact(s, Top(s).len[2], env)

\* rdr.read_exact(&mut data)?
ExecBytes(s, env) ==
    LET r == ReadDeclared(s, env) IN
    IF ~r.ok THEN r.next
    ELSE SetTop(r.next, Store(Top(s), Cur(s).name, r.bytes))

\* rdr.read_exact(&mut buf)?; String::from_utf8(buf).map_err(|_| Err(..))?
ExecString(s, env) ==
    LET r == ReadDeclared(s, env) IN
    IF ~r.ok THEN r.next
    ELSE IF ~from_utf8(r.bytes) THEN Err(r.next, Cur(s).err)
    ELSE SetTop(r.next, Store(Top(s), Cur(s).name, r.bytes))

\* let mut a = [0u8; N]; rdr.read_exact(&mut a)?
ExecFixed(s, env) ==
    LET r == read_exact(s, Cur(s).n, env) IN
    IF ~r.ok THEN r.next
    ELSE SetTop(r.next, Store(Top(s), Cur(s).name, r.bytes))

\* The 32-byte VAA hash whatever the chain id.
request_id_len_Always32(request_chain_id) == VaaHashLen

\* let request_id_len = if request_chain_id == 0 { 65 } else { 32 };
request_id_len(request_chain_id) ==
    IF request_chain_id = 0 THEN SignatureLen ELSE VaaHashLen

\* let mut request_id = vec![0u8; request_id_len]; rdr.read_exact(&mut request_id)?
ExecRequestId(s, env) ==
    LET r == read_exact(s, request_id_len(Top(s).val.request_chain_id), env) IN
    IF ~r.ok THEN r.next
    ELSE SetTop(r.next, Store(Top(s), Cur(s).name, r.bytes))

\* let executable_u8 = rdr.read_u8()?; let executable = executable_u8 != 0;
ExecBool(s, env) ==
    LET r == read_exact(s, 1, env) IN
    IF ~r.ok THEN r.next
    ELSE SetTop(r.next, Store(Top(s), Cur(s).name, r.bytes[1] # 0))

\* if query_type == 1 { ..deserialize_from_reader(rdr)? } .. else { return Err(..) }
ExecDispatch(s, env) ==
    LET v == Variant(Cur(s).sub, Top(s).val.query_type) IN
    IF v = "" THEN Err(s, Cur(s).err) ELSE Enter(s, v)

\* let request = QueryRequest::deserialize_from_reader(rdr)?;
\* and EthCallWithFinalityQueryResponse's use of EthCallQueryResponse.
ExecCall(s, env) == Enter(s, Cur(s).sub)

\* if rdr.position() != rdr.get_ref().len() as u64 { return Err(..) }
ExecEnd(s, env) ==
    IF s.pos # Len(s.buf) THEN Err(s, Cur(s).err)
    ELSE SetTop(s, [Top(s) EXCEPT !.ip = @ + 1])

\* Ok(Struct { fields.. }), and what the caller does with it: the root's
\* caller gets it; `?` in a loop pushes it; a dispatch wraps it in the enum
\* variant; a struct pattern takes its fields over.
Returned(f) ==
    IF Bare(f.prog) # "" THEN f.val[Bare(f.prog)]
    ELSE [k \in (DOMAIN f.val) \ Dropped(f.prog) |-> f.val[k]]

ExecReturn(s, env) ==
    LET f == Top(s)
        ret == Returned(f)
        n == Len(s.stack)
    IN  IF n = 1
        THEN [s EXCEPT !.result = "ok", !.value = ret, !.stack = << >>]
        ELSE LET parent == s.stack[n - 1]
                 at == Code(parent.prog)[parent.ip]
                 back ==
                   CASE at.op = "iter" ->
                          [parent EXCEPT !.val[at.name] = Append(@, ret)]
                     [] at.op = "dispatch" ->
                          Store(parent, at.name, [kind |-> f.prog, fields |-> ret])
                     [] at.op = "tail" ->
                          [parent EXCEPT !.val = ret, !.ip = @ + 1]
                     [] OTHER -> Store(parent, at.name, ret)
             IN  [s EXCEPT !.stack = Append(SubSeq(@, 1, n - 2), back)]

Step(s, env) ==
    LET op == OpOf(s) IN
    CASE op = "halt" -> s
      [] op = "return" -> ExecReturn(s, env)
      [] op = "version" -> ExecVersion(s, env)
      [] op = "uint" -> ExecUInt(s, env)
      [] op = "skip" -> ExecSkip(s, env)
      [] op = "count" -> ExecCount(s, env)
      [] op = "iter" -> ExecIter(s, env)
      [] op = "len" -> ExecLen(s, env)
      [] op = "bytes" -> ExecBytes(s, env)
      [] op = "string" -> ExecString(s, env)
      [] op = "fixed" -> ExecFixed(s, env)
      [] op = "request_id" -> ExecRequestId(s, env)
      [] op = "bool" -> ExecBool(s, env)
      [] op = "dispatch" -> ExecDispatch(s, env)
      [] op = "call" -> ExecCall(s, env)
      [] op = "tail" -> ExecCall(s, env)
      [] op = "end" -> ExecEnd(s, env)

(***************************************************************************)
(* The inputs.  A message value is written in the wire layout the parsers  *)
(* read (big-endian integers, 4-byte length prefixes, 1-byte counts, a     *)
(* 4-byte length field before each variant payload and before the embedded *)
(* request); `fill` says what the discarded length fields hold.            *)
(***************************************************************************)
EncU16(n) == << n \div 256, n % 256 >>

EncLimbs(ls) ==
    [i \in 1..(2 * Len(ls)) |->
        IF i % 2 = 1 THEN ls[(i + 1) \div 2] \div 256
                     ELSE ls[i \div 2] % 256]

EncBytes(bs) == EncLimbs(<< 0, Len(bs) >>) \o bs

RECURSIVE Flatten(_)
Flatten(ss) == IF ss = << >> THEN << >> ELSE Head(ss) \o Flatten(Tail(ss))

EncLengthField(payload, fill) ==
    CASE fill = "true" -> EncLimbs(<< 0, Len(payload) >>)
      [] fill = "zero" -> << 0, 0, 0, 0 >>
      [] fill = "ones" -> << 255, 255, 255, 255 >>

EncCallData(cd) ==
    << Len(cd) >> \o Flatten([i \in 1..Len(cd) |-> cd[i].to \o EncBytes(cd[i].data)])

EncResults(rs) ==
    << Len(rs) >> \o Flatten([i \in 1..Len(rs) |-> EncBytes(rs[i])])

Tag(kind) ==
    CASE kind \in {"EthCallQueryRequest", "EthCallQueryResponse"} -> 1
      [] kind \in {"EthCallByTimestampQueryRequest",
                   "EthCallByTimestampQueryResponse"} -> 2
      [] kind \in {"EthCallWithFinalityQueryRequest",
                   "EthCallWithFinalityQueryResponse"} -> 3
      [] kind \in {"SolanaAccountQueryRequest", "SolanaAccountQueryResponse"} -> 4
      [] OTHER -> 9

EncSolanaResult(r) ==
    EncLimbs(r.lamports) \o EncLimbs(r.rent_epoch)
    \o << IF r.executable THEN 1 ELSE 0 >> \o r.owner \o EncBytes(r.data)

EncVariant(q) ==
    LET f == q.fields IN
    CASE q.kind = "EthCallQueryRequest" ->
           EncBytes(f.block_tag) \o EncCallData(f.call_data)
      [] q.kind = "EthCallByTimestampQueryRequest" ->
           EncLimbs(f.target_timestamp) \o EncBytes(f.target_block_hint)
           \o EncBytes(f.following_block_hint) \o EncCallData(f.call_data)
      [] q.kind = "EthCallWithFinalityQueryRequest" ->
           EncBytes(f.block_tag) \o EncBytes(f.finality) \o EncCallData(f.call_data)
      [] q.kind = "SolanaAccountQueryRequest" ->
           EncBytes(f.commitment) \o EncLimbs(f.min_context_slot)
           \o EncLimbs(f.data_slice_offset) \o EncLimbs(f.data_slice_length)
           \o << Len(f.accounts) >> \o Flatten(f.accounts)
      [] q.kind \in {"EthCallQueryResponse", "EthCallWithFinalityQueryResponse"} ->
           EncLimbs(f.block_number) \o f.block_hash \o EncLimbs(f.block_time)
           \o EncResults(f.results)
      [] q.kind = "EthCallByTimestampQueryResponse" ->
           EncLimbs(f.target_block_number) \o f.target_block_hash
           \o EncLimbs(f.target_block_time)
           \o EncLimbs(f.following_block_number) \o f.following_block_hash
           \o EncLimbs(f.following_block_time) \o EncResults(f.results)
      [] q.kind = "SolanaAccountQueryResponse" ->
           EncLimbs(f.slot_number) \o EncLimbs(f.block_time) \o f.block_hash
           \o << Len(f.results) >>
           \o Flatten([i \in 1..Len(f.results) |-> EncSolanaResult(f.results[i])])
      [] OTHER -> << >>

EncPerChain(chain_id, q, fill) ==
    EncU16(chain_id) \o << Tag(q.kind) >>
    \o EncLengthField(EncVariant(q), fill) \o EncVariant(q)

EncQueryRequest(v, fill) ==
    << v.version >> \o EncLimbs(v.nonce) \o << Len(v.requests) >>
    \o Flatten([i \in 1..Len(v.requests) |->
                  EncPerChain(v.requests[i].chain_id, v.requests[i].query, fill)])

EncQueryResponse(v, fill) ==
    << v.version >> \o EncU16(v.request_chain_id) \o v.request_id
    \o EncLengthField(EncQueryRequest(v.request, fill), fill)
    \o EncQueryRequest(v.request, fill)
    \o << Len(v.responses) >>
    \o Flatten([i \in 1..Len(v.responses) |->
                  EncPerChain(v.responses[i].chain_id, v.responses[i].response, fill)])

Encode(mode, v, fill) ==
    IF mode = "QueryRequest" THEN EncQueryRequest(v, fill)
    ELSE EncQueryResponse(v, fill)

\* The sample values.
Rep(n, x) == [i \in 1..n |-> x]

QueryCatalog ==
    << [kind |-> "EthCallQueryRequest",
        fields |-> [block_tag |-> << 108 >>,
                    call_data |-> << [to |-> Rep(AddressLen, 170), data |-> << 1, 2 >>] >>]],
       [kind |-> "EthCallByTimestampQueryRequest",
        fields |-> [target_timestamp |-> << 0, 1, 515, 65535 >>,
                    target_block_hint |-> << >>,
                    following_block_hint |-> << 195, 169 >>,
                    call_data |-> << >>]],
       [kind |-> "EthCallWithFinalityQueryRequest",
        fields |-> [block_tag |-> << 97 >>, finality |-> << 115 >>,
                    call_data |-> << [to |-> Rep(AddressLen, 187), data |-> << >>] >>]],
       [kind |-> "SolanaAccountQueryRequest",
        fields |-> [commitment |-> << 102 >>,
                    min_context_slot |-> << 0, 0, 0, 7 >>,
                    data_slice_offset |-> << 0, 0, 1, 2 >>,
                    data_slice_length |-> << 0, 0, 0, 260 >>,
                    accounts |-> << Rep(HashLen, 3) >>]],
       [kind |-> "Unsupported", fields |-> NoFields] >>

ResponseCatalog ==
    << [kind |-> "EthCallQueryResponse",
        fields |-> [block_number |-> << 0, 0, 18, 13398 >>,
                    block_hash |-> Rep(HashLen, 17),
                    block_time |-> << 0, 6, 0, 258 >>,
                    results |-> << << 7 >> >>]],
       [kind |-> "EthCallByTimestampQueryResponse",
        fields |-> [target_block_number |-> << 0, 0, 0, 9 >>,
                    target_block_hash |-> Rep(HashLen, 34),
                    target_block_time |-> << 0, 0, 0, 10 >>,
                    following_block_number |-> << 0, 0, 0, 11 >>,
                    following_block_hash |-> Rep(HashLen, 51),
                    following_block_time |-> << 0, 0, 0, 12 >>,
                    results |-> << >>]],
       [kind |-> "EthCallWithFinalityQueryResponse",
        fields |-> [block_number |-> << 0, 0, 0, 513 >>,
                    block_hash |-> Rep(HashLen, 68),
                    block_time |-> << 0, 0, 0, 1 >>,
                    results |-> << << >>, << 1, 2 >> >>]],
       [kind |-> "SolanaAccountQueryResponse",
        fields |-> [slot_number |-> << 0, 0, 0, 5 >>,
                    block_time |-> << 0, 0, 2, 1 >>,
                    block_hash |-> Rep(HashLen, 85),
                    results |-> << [lamports |-> << 0, 0, 0, 1000 >>,
                                    rent_epoch |-> << 0, 0, 0, 3 >>,
                                    executable |-> TRUE,
                                    owner |-> Rep(HashLen, 102),
                                    data |-> << 9 >>] >>]],
       [kind |-> "Unsupported", fields |-> NoFields] >>

Pick(catalog, i, k) == catalog[((i - 1) % k) + 1]

\* n per-chain queries, starting at entry s of the first k of the catalog.
SampleRequest(n, s, k) ==
    [version |-> REQUEST_VERSION,
     nonce |-> << 4660, 22136 >>,
     requests |-> [i \in 1..n |->
                     [chain_id |-> 256 * i + 2,
                      query |-> Pick(QueryCatalog, s + i - 1, k)]]]

SampleResponse(n, s) ==
    [version |-> RESPONSE_VERSION,
     request_chain_id |-> IF s % 2 = 1 THEN 0 ELSE 5,
     request_id |-> Rep(IF s % 2 = 1 THEN SignatureLen ELSE VaaHashLen, 119),
     request |-> SampleRequest(1, s, Len(QueryCatalog) - 1),
     responses |-> [i \in 1..n |->
                      [chain_id |-> 256 * i + 2,
                       response |-> Pick(ResponseCatalog, s + i - 1,
                                         Len(ResponseCatalog))]]]

Modes == {"QueryRequest", "QueryResponse"}

\* Every catalog entry alone; longer (and empty) lists starting at entries
\* 1 and 4.
Shapes(lo) ==
    {ns \in (lo..MaxQueries) \X (1..Len(QueryCatalog)) : ns[1] = 1 \/ ns[2] \in {1, 4}}

Values(mode) ==
    IF mode = "QueryRequest"
    THEN {SampleRequest(ns[1], ns[2], Len(QueryCatalog)) : ns \in Shapes(1)}
    ELSE {SampleResponse(ns[1], ns[2]) : ns \in Shapes(0)}

TrailBytes == {0, 255}
Trails == UNION {[1..n -> TrailBytes] : n \in 1..MaxTrail}
PeerFills == {"zero", "ones"}
OverwriteBytes == {0, 255}

\* Whether every per-chain entry of a sample value has a supported kind.
Supported(mode, v) ==
    /\ \A i \in 1..Len(IF mode = "QueryRequest" THEN v.requests ELSE v.request.requests) :
         (IF mode = "QueryRequest" THEN v.requests ELSE v.request.requests)[i].query.kind
           # "Unsupported"
    /\ mode = "QueryResponse" =>
         \A i \in 1..Len(v.responses) : v.responses[i].response.kind # "Unsupported"

(***************************************************************************)
(* The specification.                                                      *)
(***************************************************************************)
\* QueryRequest::deserialize(data) / QueryResponse::deserialize(data) on the
\* buffer b, and beside it the same call on the related buffer pb.
Start(mode, v, b, pb, rel, overwritten) ==
    /\ run = Cursor_new(b, mode)
    /\ peer = Cursor_new(pb, mode)
    /\ input = [mode |-> mode, value |-> v, rel |-> rel, overwritten |-> overwritten]

Init ==
    \E mode \in Modes : \E v \in Values(mode) :
      LET b == Encode(mode, v, "true") IN
      \/ \E k \in 0..(Len(b) - 1) :
           Start(mode, v, b, SubSeq(b, 1, k), "prefix", FALSE)
      \/ \E x \in Trails :
           Start(mode, v, b, b \o x, "extend", FALSE)
      \/ \E fill \in PeerFills :
           Start(mode, v, b, Encode(mode, v, fill), "lenfields", FALSE)
      \/ \E i \in 1..Len(b), x \in OverwriteBytes : \E k \in {i, Len(b)} :
           /\ Len(IF mode = "QueryRequest" THEN v.requests ELSE v.responses) <= 1
           /\ b[i] # x
           /\ Start(mode, v, SubSeq([b EXCEPT ![i] = x], 1, k),
                    SubSeq([Encode(mode, v, "ones") EXCEPT ![i] = x], 1, k),
                    "lenfields", TRUE)

\* The builds that can tell the statements at hand apart: the two read_exact
\* behaviours where a read is made, the two usize widths where a buffer of a
\* declared length is allocated.
ReadOps ==
    {"version", "uint", "skip", "count", "len", "bytes", "string", "fixed",
     "request_id", "bool"}

Builds(ops) ==
    [eofSeek : IF ops \cap ReadOps # {} THEN BOOLEAN ELSE {FALSE},
     ptr32 : IF "len" \in ops THEN BOOLEAN ELSE {FALSE}]

\* The decode of `peer` moves with each statement of the decode of `run`.
PeerStep(env) ==
    /\ peer' = Step(peer, env)
    /\ UNCHANGED input

ReadVersion ==
    /\ OpOf(run) = "version"
    /\ \E env \in Builds({OpOf(run), OpOf(peer)}) :
         run' = ExecVersion(run, env) /\ PeerStep(env)

ReadUInt ==
    /\ OpOf(run) = "uint"
    /\ \E env \in Builds({OpOf(run), OpOf(peer)}) :
         run' = ExecUInt(run, env) /\ PeerStep(env)

SkipLength ==
    /\ OpOf(run) = "skip"
    /\ \E env \in Builds({OpOf(run), OpOf(peer)}) :
         run' = ExecSkip(run, env) /\ PeerStep(env)

ReadCount ==
    /\ OpOf(run) = "count"
    /\ \E env \in Builds({OpOf(run), OpOf(peer)}) :
         run' = ExecCount(run, env) /\ PeerStep(env)

Iterate ==
    /\ OpOf(run) = "iter"
    /\ \E env \in Builds({OpOf(run), OpOf(peer)}) :
         run' = ExecIter(run, env) /\ PeerStep(env)

ReadLen ==
    /\ OpOf(run) = "len"
    /\ \E env \in Builds({OpOf(run), OpOf(peer)}) :
         run' = ExecLen(run, env) /\ PeerStep(env)

ReadBytes ==
    /\ OpOf(run) = "bytes"
    /\ \E env \in Builds({OpOf(run), OpOf(peer)}) :
         run' = ExecBytes(run, env) /\ PeerStep(env)

ReadString ==
    /\ OpOf(run) = "string"
    /\ \E env \in Builds({OpOf(run), OpOf(peer)}) :
         run' = ExecString(run, env) /\ PeerStep(env)

ReadFixed ==
    /\ OpOf(run) = "fixed"
    /\ \E env \in Builds({OpOf(run), OpOf(peer)}) :
         run' = ExecFixed(run, env) /\ PeerStep(env)

ReadRequestId ==
    /\ OpOf(run) = "request_id"
    /\ \E env \in Builds({OpOf(run), OpOf(peer)}) :
         run' = ExecRequestId(run, env) /\ PeerStep(env)

ReadBool ==
    /\ OpOf(run) = "bool"
    /\ \E env \in Builds({OpOf(run), OpOf(peer)}) :
         run' = ExecBool(run, env) /\ PeerStep(env)

Dispatch ==
    /\ OpOf(run) = "dispatch"
    /\ \E env \in Builds({OpOf(run), OpOf(peer)}) :
         run' = ExecDispatch(run, env) /\ PeerStep(env)

Call ==
    /\ OpOf(run) = "call"
    /\ \E env \in Builds({OpOf(run), OpOf(peer)}) :
         run' = ExecCall(run, env) /\ PeerStep(env)

Relabel ==
    /\ OpOf(run) = "tail"
    /\ \E env \in Builds({OpOf(run), OpOf(peer)}) :
         run' = ExecCall(run, env) /\ PeerStep(env)

CheckEnd ==
    /\ OpOf(run) = "end"
    /\ \E env \in Builds({OpOf(run), OpOf(peer)}) :
         run' = ExecEnd(run, env) /\ PeerStep(env)

Return ==
    /\ OpOf(run) = "return"
    /\ \E env \in Builds({OpOf(run), OpOf(peer)}) :
         run' = ExecReturn(run, env) /\ PeerStep(env)

\* The decode of `run` has returned and the decode of `peer` goes on.
PeerAlone ==
    /\ OpOf(run) = "halt"
    /\ OpOf(peer) # "halt"
    /\ \E env \in Builds({OpOf(peer)}) : peer' = Step(peer, env)
    /\ UNCHANGED <<run, input>>

Next ==
    \/ ReadVersion \/ ReadUInt \/ SkipLength \/ ReadCount \/ Iterate
    \/ ReadLen \/ ReadBytes \/ ReadString \/ ReadFixed \/ ReadRequestId
    \/ ReadBool \/ Dispatch \/ Call \/ Relabel \/ CheckEnd \/ Return
    \/ PeerAlone

Spec == Init /\ [][Next]_vars

(***************************************************************************)
(* Vocabulary of the properties.                                           *)
(***************************************************************************)
Decodes == {run, peer}
Done(s) == s.result # "running"
Failed(s) == s.result \notin {"running", "ok", "panic"}
IsResponse == input.mode = "QueryResponse"
IsRequest == input.mode = "QueryRequest"

\* The decode stands at (or failed at) statement `op` of the root parser.
AtRoot(s, op) ==
    /\ Len(s.stack) = 1
    /\ ~AtEnd(s)
    /\ Cur(s).op = op

\* The active per-chain parsers that have read a tag outside {1,2,3,4}.
BadTagFrames(s) ==
    {k \in 1..Len(s.stack) :
       /\ s.stack[k].prog \in {"PerChainQueryRequest", "PerChainQueryResponse"}
       /\ "query_type" \in DOMAIN s.stack[k].val
       /\ s.stack[k].val.query_type \notin 1..4}

UnsupportedError(f) ==
    IF f.prog = "PerChainQueryRequest" THEN "UnsupportedQueryType"
    ELSE "UnsupportedResponseType"

(***************************************************************************)
(* C1.  QueryResponse's exact-consumption check.                           *)
(***************************************************************************)
\* C1: a QueryResponse decode that has decoded every field and stands at a
\* cursor position other than the buffer length fails with
\* InvalidPayloadLength (so a well-formed response with trailing bytes
\* appended fails with it), and every successful QueryResponse decode ends
\* with the cursor at the buffer length.
C1_ExactConsumption ==
    IsResponse =>
      /\ \A s \in Decodes :
           /\ s.result = "ok" => s.pos = Len(s.buf)
           /\ (Done(s) /\ AtRoot(s, "end")) =>
                (s.result = "InvalidPayloadLength" /\ s.pos # Len(s.buf))
           /\ (Running(s) /\ Len(s.stack) = 1 /\ AtEnd(s)) => s.pos = Len(s.buf)
      /\ (input.rel = "extend" /\ run.result = "ok" /\ Done(peer)) =>
           peer.result = "InvalidPayloadLength"

C1_Witness ==
    /\ IsResponse
    /\ input.rel = "extend"
    /\ run.result = "ok"
    /\ Len(peer.buf) = Len(run.buf) + 1
    /\ peer.result = "InvalidPayloadLength"
    /\ Len(run.value.responses) >= 1

(***************************************************************************)
(* C2.  Declared lengths and allocation.                                   *)
(***************************************************************************)
\* C2: no buffer sized by a declared length is allocated with a size above
\* the number of bytes remaining at the cursor.
C2_NoOversizedAllocation ==
    \A s \in Decodes :
      s.alloc.made => (s.alloc.size[1] = 0 /\ s.alloc.size[2] <= s.alloc.rem)

(***************************************************************************)
(* C3.  Truncation.                                                        *)
(***************************************************************************)
\* C3: when a buffer decodes successfully consuming all of it, the decode
\* of each proper prefix of it returns an error: not a value, not a panic.
C3_PrefixFails ==
    (/\ input.rel = "prefix"
     /\ run.result = "ok"
     /\ run.pos = Len(run.buf)
     /\ Done(peer))
    => (Failed(peer) /\ peer.value = NoValue)

C3_Witness ==
    /\ input.rel = "prefix"
    /\ IsResponse
    /\ run.result = "ok"
    /\ run.pos = Len(run.buf)
    /\ Len(peer.buf) = Len(run.buf) - 1
    /\ peer.result = "UnexpectedEof"

(***************************************************************************)
(* C4.  The version byte.                                                  *)
(***************************************************************************)
VersionError == IF IsRequest THEN "VersionMismatch" ELSE "InvalidResponseVersion"

\* C4: on a non-empty buffer whose first byte is not 1 the decode reads that
\* byte and nothing else, and fails with VersionMismatch (a request) or
\* InvalidResponseVersion (a response), whatever follows the byte.
C4_VersionChecked ==
    \A s \in Decodes :
      (Len(s.buf) >= 1 /\ s.buf[1] # 1) =>
        \/ Running(s) /\ s.pos = 0 /\ s.readEnd = 0
        \/ s.result = VersionError /\ s.readEnd = 1 /\ s.value = NoValue
             /\ s.pos \in {1, Len(s.buf)}

C4_Witness ==
    /\ IsResponse
    /\ Len(run.buf) = 1
    /\ run.buf[1] = 255
    /\ run.result = "InvalidResponseVersion"

(***************************************************************************)
(* C5.  Unsupported per-chain tags.                                        *)
(***************************************************************************)
\* C5 as stated: a per-chain query or response whose tag is outside
\* {1,2,3,4} makes the decode fail with UnsupportedQueryType or
\* UnsupportedResponseType, and no value is returned.
C5_BadTagUnsupported ==
    \A s \in Decodes : \A k \in BadTagFrames(s) :
      Done(s) =>
        (s.result = UnsupportedError(s.stack[k]) /\ s.value = NoValue)

\* C5 amended: the same, when the 4-byte length field that follows the tag
\* is present in the buffer.
C5_BadTagUnsupportedAfterLength ==
    \A s \in Decodes : \A k \in BadTagFrames(s) :
      (Done(s) /\ Len(s.buf) >= s.stack[k].start + 7) =>
        (s.result = UnsupportedError(s.stack[k]) /\ s.value = NoValue)

C5_Witness ==
    /\ BadTagFrames(peer) # {}
    /\ Top(peer).prog = "PerChainQueryResponse"
    /\ Len(peer.buf) >= Top(peer).start + 7
    /\ peer.result = "UnsupportedResponseType"
    /\ peer.value = NoValue

(***************************************************************************)
(* C6.  At least one per-chain query.                                      *)
(***************************************************************************)
\* The requests of the QueryRequest a successful decode returned (the
\* embedded one, for a response).
DecodedRequests(s) ==
    IF IsRequest THEN s.value.requests ELSE s.value.request.requests

\* C6: a request buffer with version byte 1, a 4-byte nonce and a count byte
\* of 0 fails with ZeroQueries, at the top level and embedded in a response
\* alike; every successfully decoded QueryRequest has at least one per-chain
\* request.
C6_ZeroQueries ==
    \A s \in Decodes :
      /\ (IsRequest /\ Done(s) /\ Len(s.buf) >= 6 /\ s.buf[1] = 1 /\ s.buf[6] = 0)
           => (s.result = "ZeroQueries" /\ s.value = NoValue)
      /\ (/\ Done(s)
          /\ s.stack # << >>
          /\ Top(s).prog = "QueryRequest"
          /\ Len(s.buf) >= Top(s).start + 6
          /\ s.buf[Top(s).start + 1] = 1
          /\ s.buf[Top(s).start + 6] = 0)
           => (s.result = "ZeroQueries" /\ s.value = NoValue)
      /\ s.result = "ok" => Len(DecodedRequests(s)) >= 1

C6_Witness ==
    /\ IsResponse
    /\ Top(run).prog = "QueryRequest"
    /\ Len(run.buf) > Top(run).start + 6
    /\ run.buf[Top(run).start + 6] = 0
    /\ run.result = "ZeroQueries"

(***************************************************************************)
(* C7.  The size of request_id.                                            *)
(***************************************************************************)
\* C7: a successfully decoded QueryResponse has a request_id of 65 bytes
\* when request_chain_id is 0 and of 32 bytes otherwise, and these are the
\* bytes of the buffer that follow the 2-byte request_chain_id.
C7_RequestIdSize ==
    IsResponse =>
      \A s \in Decodes :
        /\ s.result = "ok" =>
             LET n == IF s.value.request_chain_id = 0 THEN 65 ELSE 32 IN
             /\ s.value.request_chain_id = s.buf[2] * 256 + s.buf[3]
             /\ Len(s.value.request_id) = n
             /\ s.value.request_id = SubSeq(s.buf, 4, 3 + n)
        /\ (Running(s) /\ s.stack[1].ip = 4 /\ Len(s.stack) = 1) =>
             s.pos = 3 + (IF s.buf[2] = 0 /\ s.buf[3] = 0 THEN 65 ELSE 32)

C7_Witness ==
    /\ IsResponse
    /\ run.result = "ok"
    /\ run.value.request_chain_id = 0
    /\ Len(run.value.request_id) = 65
    /\ run.pos = Len(run.buf)

(***************************************************************************)
(* C8.  Decoding the wire encoding of a request.                           *)
(***************************************************************************)
\* C8: the decode of the wire encoding of a request value with version 1,
\* 1..MaxQueries per-chain queries and supported tags succeeds and returns
\* that value: the nonce, and the chain ids, variants and variant fields of
\* the per-chain requests in wire order.
C8_RequestRoundTrip ==
    (/\ IsRequest
     /\ ~input.overwritten
     /\ Supported(input.mode, input.value)
     /\ Done(run))
    => (run.result = "ok" /\ run.value = input.value)

C8_Witness ==
    /\ IsRequest
    /\ ~input.overwritten
    /\ Supported(input.mode, input.value)
    /\ run.result = "ok"
    /\ Len(run.value.requests) = MaxQueries
    /\ run.value.requests[1].query.kind = "EthCallQueryRequest"
    /\ run.value.requests[2].query.kind = "EthCallByTimestampQueryRequest"
    /\ run.value = input.value

(***************************************************************************)
(* C9.  The discarded length fields.                                       *)
(***************************************************************************)
\* The two buffers differ at most in bytes the decode of `run` read as
\* discarded length fields.
DifferInLengthFieldsOnly ==
    /\ Len(run.buf) = Len(peer.buf)
    /\ \A i \in 1..Len(run.buf) : i \notin run.skipped => run.buf[i] = peer.buf[i]

\* C9: two buffers that differ only in the values of discarded length
\* fields decode to the same outcome (the same value or the same error) with
\* the same number of bytes consumed.
C9_LengthFieldsIgnored ==
    (Done(run) /\ Done(peer) /\ DifferInLengthFieldsOnly) =>
      /\ peer.result = run.result
      /\ peer.value = run.value
      /\ peer.pos = run.pos

C9_Witness ==
    /\ IsResponse
    /\ DifferInLengthFieldsOnly
    /\ Cardinality({i \in 1..Len(run.buf) : run.buf[i] # peer.buf[i]}) >= 12
    /\ run.result = "ok"
    /\ peer.result = "ok"
    /\ peer.value = run.value

(***************************************************************************)
(* C10.  One forward-only cursor.                                          *)
(***************************************************************************)
CursorInBounds(s) ==
    /\ s.pos \in 0..Len(s.buf)
    /\ ~s.reread
    /\ s.result \in {"running", "ok"} => s.readEnd = s.pos
    /\ \A k \in 1..Len(s.stack) :
         /\ s.stack[k].start <= s.pos
         /\ (k > 1 /\ k = Len(s.stack) /\ s.stack[k].ip = 1 /\ Running(s)) =>
              s.stack[k].start = s.pos

\* C10: in every decode the cursor stays within the buffer and never moves
\* back, no byte is read twice, every read begins where the one before it
\* ended, and a called parser begins at the position its caller reached.
C10_ForwardOnly ==
    /\ [](CursorInBounds(run) /\ CursorInBounds(peer))
    /\ [][run'.pos >= run.pos /\ peer'.pos >= peer.pos]_vars

C10_Witness ==
    /\ IsResponse
    /\ Len(run.stack) >= 4
    /\ run.stack[2].prog = "QueryRequest"
    /\ Top(run).ip = 1
    /\ Top(run).start = run.pos
    /\ run.pos > 0

(***************************************************************************)
(* C11.  QueryRequest ignores trailing bytes.                              *)
(***************************************************************************)
\* C11: QueryRequest::deserialize makes no exact-consumption check: when a
\* buffer decodes successfully to a request value, the buffer followed by
\* extra bytes decodes successfully to the same value, with the cursor left
\* at the same position, before the extra bytes.
C11_RequestIgnoresTrailing ==
    (IsRequest /\ input.rel = "extend" /\ run.result = "ok") =>
      /\ peer.result = "ok"
      /\ peer.value = run.value
      /\ peer.pos = run.pos
      /\ peer.pos < Len(peer.buf)

C11_Witness ==
    /\ IsRequest
    /\ input.rel = "extend"
    /\ run.result = "ok"
    /\ run.pos = Len(run.buf)
    /\ Len(peer.buf) > Len(run.buf)
    /\ peer.result = "ok"
    /\ peer.value = run.value
    /\ Len(peer.value.requests) = MaxQueries

====
